---- MODULE Spec2Model ----
(***************************************************************************)
(* claude-code-router: the gateway service started by run()                *)
(* (src/src/utils/index.ts, lines 211-332): provider registration, the     *)
(* LRU client cache behind getProviderInstance, the middleware pipeline    *)
(* and the POST /v1/messages handler; and, around the service, the PID     *)
(* file and signals, the CLI command "code" (lines 386-457) and            *)
(* readConfigFile (lines 57-102).                                          *)
(*                                                                         *)
(* Six specifications share the definitions:                               *)
(*   Spec           run() followed by concurrently handled requests        *)
(*   SpecStartup    run() alone, over a wide set of configurations         *)
(*   SpecCache      getProviderInstance calls and the clock, with eleven   *)
(*                  registered providers (one more than the cache holds)   *)
(*   SpecLifecycle  processes calling run(), the PID file, the signals     *)
(*   SpecCli        the command "code" beside the service processes        *)
(*   SpecConfig     one readConfigFile call over environments, files and   *)
(*                  defaults                                               *)
(***************************************************************************)
EXTENDS Integers, Sequences, FiniteSets, TLC

VARIABLES
  config,         \* the object returned by initConfig (line 222)
  runpc,          \* position of run() in its body
  Providers,      \* Map<string, ModelProvider> (line 225), in insertion order
  providerCache,  \* LRUCache<string, OpenAI> (line 226), least recent first
  nextHandle,     \* identity of the next OpenAI object constructed (line 238)
  now,            \* the clock the cache reads, in hours
  middlewares,    \* the stages registered with server.useMiddleware, in order
  running,        \* the process is alive
  req,            \* per request: position, context (req.*), response
  call,           \* the last getProviderInstance call and what it returned
  lastUse,        \* per cache key, the number of the call that last used it
  builtAt,        \* per cache key, when its latest handle was constructed
  pidFile,        \* PID_FILE: the pid it holds, 0 when there is no file
  proc,           \* per process that calls run(): position, what it set up
  cli,            \* the process of the CLI command "code"
  cfgio           \* one readConfigFile call: its inputs, position and results

\* the state of the gateway inside one service process
gatewayVars == <<config, runpc, Providers, providerCache, nextHandle, now,
                 middlewares, running, req, call, lastUse, builtAt>>

\* the state of the host: PID file, processes, CLI, configuration file
hostVars == <<pidFile, proc, cli, cfgio>>

vars == <<gatewayVars, hostVars>>

----------------------------------------------------------------------------
(* Bounds of the model *)

\* concurrently handled requests (Spec)
MaxReqs == 2
\* length of config.Providers (SpecStartup)
MaxProviders == 2
\* getProviderInstance calls after the warm-up (SpecCache)
MaxCalls == 3
\* last clock value, in hours (SpecCache)
MaxTime == 3
\* processes that call run() (SpecLifecycle, SpecCli)
MaxProcs == 2

(* Program constants *)

\* max: 10 (line 227)
CacheMax == 10
\* ttl: 2 * 60 * 60 * 1000 ms (line 228), in hours
CacheTTL == 2
\* timeout = 10000 ms (line 387), in seconds
WaitTimeout == 10

Reqs == 1..MaxReqs

----------------------------------------------------------------------------
(* Values.  "" is a missing (falsy) string, as undefined or "" in the code *)

NoProvider == [name |-> "", api_base_url |-> "", api_key |-> "", models |-> <<>>]
NoHandle == [id |-> 0, baseURL |-> "", apiKey |-> ""]
NoRule == [provider |-> "", model |-> ""]

\* interface ModelProvider (lines 184-189)
ModelProvider(n, u, k, ms) ==
  [name |-> n, api_base_url |-> u, api_key |-> k, models |-> ms]

P1 == ModelProvider("p1", "u1", "k1", <<"m1">>)
P2 == ModelProvider("p2", "u2", "k2", <<"mfast", "mthink">>)
\* a second entry of config.Providers with the name of P1
P1b == ModelProvider("p1", "u1b", "k1b", <<"m1b">>)
\* an entry of config.Providers named "default"
PD == ModelProvider("default", "ud", "kd", <<"md">>)

Rule(p, m) == [provider |-> p, model |-> m]

NoRouter == [background |-> NoRule, think |-> NoRule, longContext |-> NoRule]
PartialRouter ==
  [background |-> Rule("p2", "mfast"), think |-> Rule("p2", "mthink"),
   longContext |-> NoRule]
\* the longContext rule names p3, which no configuration registers
FullRouter ==
  [background |-> Rule("p2", "mfast"), think |-> Rule("p2", "mthink"),
   longContext |-> Rule("p3", "mbig")]

Config(k, u, m, ps, r) ==
  [OPENAI_API_KEY |-> k, OPENAI_BASE_URL |-> u, OPENAI_MODEL |-> m,
   Providers |-> ps, Router |-> r]

RECURSIVE SeqsUpTo(_, _)
SeqsUpTo(S, n) ==
  IF n = 0 THEN {<<>>}
  ELSE LET shorter == SeqsUpTo(S, n - 1)
       IN shorter \cup {Append(s, x) : s \in {t \in shorter : Len(t) = n - 1}, x \in S}

\* configurations of Spec
GatewayConfigs ==
  {Config(k, "u0", "m0", ps, r) :
     k \in {"", "k0"}, ps \in {<<>>, <<P1, P2>>}, r \in {NoRouter, FullRouter}}
    \cup {Config("k0", "u0", "m0", <<P1, P2>>, PartialRouter)}

\* configurations of SpecStartup
StartupConfigs ==
  {Config(k, u, m, ps, r) :
     k \in {"", "k0"}, u \in {"", "u0"}, m \in {"", "m0"},
     ps \in SeqsUpTo({P1, P2, P1b, PD}, MaxProviders),
     r \in {NoRouter, FullRouter}}

\* the eleven providers of SpecCache: q1 .. q11
CacheProviderNames ==
  <<"q1", "q2", "q3", "q4", "q5", "q6", "q7", "q8", "q9", "q10", "q11">>
\* each with an address and a key of its own
CacheProviderUrls ==
  <<"u1", "u2", "u3", "u4", "u5", "u6", "u7", "u8", "u9", "u10", "u11">>
CacheProviderKeys ==
  <<"k1", "k2", "k3", "k4", "k5", "k6", "k7", "k8", "k9", "k10", "k11">>
CacheProviders ==
  [i \in 1..(CacheMax + 1) |->
     ModelProvider(CacheProviderNames[i], CacheProviderUrls[i],
                   CacheProviderKeys[i], <<"mq">>)]
CacheConfig == Config("", "", "", CacheProviders, NoRouter)

----------------------------------------------------------------------------
(* Map<string, ModelProvider>: a sequence of entries in insertion order *)

MapIndexOf(m, k) ==
  IF \E i \in 1..Len(m) : m[i].key = k
  THEN CHOOSE i \in 1..Len(m) : m[i].key = k
  ELSE 0

MapHas(m, k) == MapIndexOf(m, k) # 0

\* Map.get: undefined (NoProvider) for a missing key
MapGet(m, k) ==
  IF MapHas(m, k) THEN m[MapIndexOf(m, k)].value ELSE NoProvider

\* Map.set: an existing key keeps its place and takes the new value
MapSet(m, k, v) ==
  IF MapHas(m, k)
  THEN [m EXCEPT ![MapIndexOf(m, k)].value = v]
  ELSE Append(m, [key |-> k, value |-> v])

\* Providers.values().next().value
MapFirstValue(m) == m[1].value

----------------------------------------------------------------------------
(* LRUCache<string, OpenAI>({max, ttl}) of lru-cache, default options: a     *)
(* sequence of entries [key, val, start], least recently used first          *)

\* CacheIndexOf with a key map that never finds a key
CacheIndexOfNone(c, k) == 0

\* keyMap.get(k): the index of the entry of key k, 0 when there is none
CacheIndexOf(c, k) ==
  IF \E i \in 1..Len(c) : c[i].key = k
  THEN CHOOSE i \in 1..Len(c) : c[i].key = k
  ELSE 0

\* isStale: the entry is older than ttl
IsStale(e, t) == t - e.start > CacheTTL

CacheRemoveAt(c, i) == SubSeq(c, 1, i - 1) \o SubSeq(c, i + 1, Len(c))

\* MoveToTail that leaves the order alone: hits do not count as uses
MoveToTailNot(c, i) == c

\* moveToTail: the entry becomes the most recently used
MoveToTail(c, i) == Append(CacheRemoveAt(c, i), c[i])

\* evict: the least recently used entry goes
Evict(c) == Tail(c)

\* CacheGet with updateAgeOnGet: a hit restarts the age of the entry
CacheGetRefreshing(c, k, t) ==
  LET i == CacheIndexOf(c, k)
  IN IF i = 0 THEN [val |-> NoHandle, cache |-> c]
     ELSE IF IsStale(c[i], t) THEN [val |-> NoHandle, cache |-> CacheRemoveAt(c, i)]
     ELSE [val |-> c[i].val,
           cache |-> Append(CacheRemoveAt(c, i), [c[i] EXCEPT !.start = t])]

\* cache.get(k) at time t: the value (NoHandle for undefined) and the cache
\* after the call.  A stale entry is deleted; a hit moves the entry to the
\* tail and leaves its age alone (updateAgeOnGet is false).
CacheGet(c, k, t) ==
  LET i == CacheIndexOf(c, k)
  IN IF i = 0 THEN [val |-> NoHandle, cache |-> c]
     ELSE IF IsStale(c[i], t) THEN [val |-> NoHandle, cache |-> CacheRemoveAt(c, i)]
     ELSE [val |-> c[i].val, cache |-> MoveToTail(c, i)]

\* cache.set(k, v) at time t
CacheSet(c, k, v, t) ==
  LET i == CacheIndexOf(c, k)
      e == [key |-> k, val |-> v, start |-> t]
  IN IF i # 0 THEN Append(CacheRemoveAt(c, i), e)
     ELSE IF Len(c) = CacheMax THEN Append(Evict(c), e)
     ELSE Append(c, e)

\* new OpenAI({baseURL, apiKey, ...}) (lines 238-242)
NewOpenAI(id, provider) ==
  [id |-> id, baseURL |-> provider.api_base_url, apiKey |-> provider.api_key]

\* GetProviderInstance that constructs and caches the handle before it
\* looks at what the registry returned
GetProviderInstanceBuildFirst(reg, c, nh, t, providerName) ==
  LET provider == MapGet(reg, providerName)
      openai == NewOpenAI(nh, provider)
  IN [threw |-> provider = NoProvider, openai |-> openai, key |-> providerName,
      cache |-> CacheSet(c, providerName, openai, t), next |-> nh + 1]

\* GetProviderInstance that keys the cache by the name it was asked for
GetProviderInstanceKeyedByArgument(reg, c, nh, t, providerName) ==
  LET provider == MapGet(reg, providerName)
      got == CacheGet(c, providerName, t)
      openai == NewOpenAI(nh, provider)
  IN IF provider = NoProvider
     THEN [threw |-> TRUE, openai |-> NoHandle, key |-> "", cache |-> c,
           next |-> nh]
     ELSE IF got.val # NoHandle
     THEN [threw |-> FALSE, openai |-> got.val, key |-> providerName,
           cache |-> got.cache, next |-> nh]
     ELSE [threw |-> FALSE, openai |-> openai, key |-> providerName,
           cache |-> CacheSet(got.cache, providerName, openai, t),
           next |-> nh + 1]

\* getProviderInstance(providerName) at time t (lines 231-246): whether it
\* threw, the handle returned, the cache key used, and the cache and handle
\* counter after the call
GetProviderInstance(reg, c, nh, t, providerName) ==
  LET provider == MapGet(reg, providerName)
      got == CacheGet(c, provider.name, t)
      openai == NewOpenAI(nh, provider)
  IN IF provider = NoProvider
     THEN [threw |-> TRUE, openai |-> NoHandle, key |-> "", cache |-> c,
           next |-> nh]
     ELSE IF got.val # NoHandle
     THEN [threw |-> FALSE, openai |-> got.val, key |-> provider.name,
           cache |-> got.cache, next |-> nh]
     ELSE [threw |-> FALSE, openai |-> openai, key |-> provider.name,
           cache |-> CacheSet(got.cache, provider.name, openai, t),
           next |-> nh + 1]

----------------------------------------------------------------------------
(* run(): registration of the providers, of the stages and of the handler *)

\* config.Providers.forEach(provider => Providers.set(provider.name, provider))
RECURSIVE RegisterAll(_, _)
RegisterAll(m, ps) ==
  IF ps = <<>> THEN m
  ELSE RegisterAll(MapSet(m, Head(ps).name, Head(ps)), Tail(ps))

\* RegisterDefaultProvider taking the triple when any of the three is set
RegisterDefaultProviderAnySet(m, cfg) ==
  IF cfg.OPENAI_API_KEY # "" \/ cfg.OPENAI_BASE_URL # "" \/ cfg.OPENAI_MODEL # ""
  THEN MapSet(m, "default",
              ModelProvider("default", cfg.OPENAI_BASE_URL, cfg.OPENAI_API_KEY,
                            <<cfg.OPENAI_MODEL>>))
  ELSE IF Len(m) > 0 THEN MapSet(m, "default", MapFirstValue(m))
  ELSE m

\* lines 259-270: the registry with "default" resolved
RegisterDefaultProvider(m, cfg) ==
  IF cfg.OPENAI_API_KEY # "" /\ cfg.OPENAI_BASE_URL # "" /\ cfg.OPENAI_MODEL # ""
  THEN MapSet(m, "default",
              ModelProvider("default", cfg.OPENAI_BASE_URL, cfg.OPENAI_API_KEY,
                            <<cfg.OPENAI_MODEL>>))
  ELSE IF Len(m) > 0 THEN MapSet(m, "default", MapFirstValue(m))
  ELSE m

\* lines 303-307: all three rules are present
RouterComplete(cfg) ==
  /\ cfg.Router.background # NoRule
  /\ cfg.Router.think # NoRule
  /\ cfg.Router.longContext # NoRule

\* MiddlewareStack that installs no routing stage when the rules are
\* incomplete
MiddlewareStackSkipping(cfg) ==
  IF RouterComplete(cfg)
  THEN <<"attachConfig", "rewriteBody", "router", "formatRequest">>
  ELSE <<"attachConfig", "rewriteBody", "formatRequest">>

\* the stages in the order of the server.useMiddleware calls (lines 297-319)
MiddlewareStack(cfg) ==
  <<"attachConfig", "rewriteBody",
    IF RouterComplete(cfg) THEN "router" ELSE "staticDefault",
    "formatRequest">>

\* no call yet.  A call records the name asked for, whether it threw, the
\* handle returned, the cache key, whether a handle was constructed, the
\* handle the cache held for the key before the call and how long ago that
\* handle was constructed
NoCall == [n |-> 0, name |-> "", threw |-> FALSE, openai |-> NoHandle,
           key |-> "", constructed |-> FALSE, had |-> NoHandle, age |-> 0]

IdleReq ==
  [pc |-> "idle", stage |-> 0, kind |-> "", provider |-> "", model |-> "",
   hasConfig |-> FALSE, handle |-> NoHandle, backend |-> "", calls |-> 0,
   resp |-> "none", logged |-> 0, trace |-> <<>>]

\* no key has been used yet
NoUse == [k \in {} |-> 0]

\* the record f with key k set to v
Noted(f, k, v) == [x \in DOMAIN f \cup {k} |-> IF x = k THEN v ELSE f[x]]

\* the processes that may call run()
Procs == 1..MaxProcs

\* a process that has not called run(): it has saved no PID, registered no
\* signal handler, created no server and installed no stage; sawRunning is
\* what isServiceRunning() answered at line 213, exit is how it ended
IdleProc ==
  [pc |-> "idle", sawRunning |-> FALSE, savedPid |-> FALSE, sigint |-> FALSE,
   sigterm |-> FALSE, server |-> FALSE, stages |-> FALSE, exit |-> "none"]

\* the command "code" before it runs
IdleCli ==
  [pc |-> "idle", spawned |-> FALSE, elapsed |-> 0, observed |-> FALSE,
   executed |-> FALSE, exitCode |-> -1]

\* no readConfigFile call
IdleCfgio == [pc |-> "idle"]

\* nothing has happened on the host: no PID file, no process, no command
HostIdle ==
  /\ pidFile = 0
  /\ proc = [p \in Procs |-> IdleProc]
  /\ cli = IdleCli
  /\ cfgio = IdleCfgio

\* lines 222-229: the configuration is loaded, the registry and cache are empty
GatewayLoaded(configs) ==
  /\ config \in configs
  /\ runpc = "providers"
  /\ Providers = <<>>
  /\ providerCache = <<>>
  /\ nextHandle = 1
  /\ now = 0
  /\ middlewares = <<>>
  /\ running = TRUE
  /\ req = [r \in Reqs |-> IdleReq]
  /\ call = NoCall
  /\ lastUse = NoUse
  /\ builtAt = NoUse

\* the gateway as loaded, on a host where nothing has happened
InitWith(configs) == GatewayLoaded(configs) /\ HostIdle

Init == InitWith(GatewayConfigs)

\* lines 249-257
RegisterProviders ==
  /\ running /\ runpc = "providers"
  /\ Providers' = RegisterAll(Providers, config.Providers)
  /\ runpc' = "default"
  /\ UNCHANGED <<config, providerCache, nextHandle, now, middlewares, running,
                 req, call, lastUse, builtAt, hostVars>>

\* lines 259-270
RegisterDefault ==
  /\ running /\ runpc = "default"
  /\ Providers' = RegisterDefaultProvider(Providers, config)
  /\ runpc' = "listen"
  /\ UNCHANGED <<config, providerCache, nextHandle, now, middlewares, running,
                 req, call, lastUse, builtAt, hostVars>>

\* lines 271-294: the PID is saved, the signal handlers are registered and
\* the server is created
CreateServer ==
  /\ running /\ runpc = "listen"
  /\ runpc' = "middleware"
  /\ UNCHANGED <<config, Providers, providerCache, nextHandle, now,
                 middlewares, running, req, call, lastUse, builtAt, hostVars>>

\* lines 297-319
InstallMiddleware ==
  /\ running /\ runpc = "middleware"
  /\ middlewares' = MiddlewareStack(config)
  /\ runpc' = "start"
  /\ UNCHANGED <<config, Providers, providerCache, nextHandle, now, running,
                 req, call, lastUse, builtAt, hostVars>>

\* lines 321-331: the handler is registered and the server starts
StartServer ==
  /\ running /\ runpc = "start"
  /\ runpc' = "serving"
  /\ UNCHANGED <<config, Providers, providerCache, nextHandle, now,
                 middlewares, running, req, call, lastUse, builtAt, hostVars>>

RunNext ==
  \/ RegisterProviders
  \/ RegisterDefault
  \/ CreateServer
  \/ InstallMiddleware
  \/ StartServer

InitStartup == InitWith(StartupConfigs)
SpecStartup == InitStartup /\ [][RunNext]_vars

----------------------------------------------------------------------------
(* One request through the stages and the POST /v1/messages handler *)

\* what the classifier of the router makes of a request: the default
\* category, a category whose rule names a registered provider, and one
\* whose rule names an unregistered provider
Kinds == {"plain", "background", "long"}
\* req.body.model as the caller sends it
InboundModels == {"claude-in"}
\* what rewriteBody may leave in req.body.model
RewrittenModels == {"claude-rw"}

\* a stage has run and called next(): the following stage, or the handler
\* after the last one
PassOn(q, stageName) ==
  [q EXCEPT !.trace = Append(@, stageName),
            !.stage = @ + 1,
            !.pc = IF q.stage < Len(middlewares) THEN "pipeline" ELSE "handler"]

AtStage(r, stageName) ==
  /\ running
  /\ req[r].pc = "pipeline"
  /\ req[r].stage \in 1..Len(middlewares)
  /\ middlewares[req[r].stage] = stageName

\* a request arrives at the started server
Arrive(r) ==
  /\ running /\ runpc = "serving"
  /\ req[r].pc = "idle"
  /\ \E m \in InboundModels, k \in Kinds :
       req' = [req EXCEPT ![r] = [@ EXCEPT !.pc = "pipeline", !.stage = 1,
                                            !.model = m, !.kind = k]]
  /\ UNCHANGED <<config, runpc, Providers, providerCache, nextHandle, now,
                 middlewares, running, call, lastUse, builtAt, hostVars>>

\* lines 297-301: req.config = config; next()
AttachConfig(r) ==
  /\ AtStage(r, "attachConfig")
  /\ req' = [req EXCEPT ![r] = PassOn([@ EXCEPT !.hasConfig = TRUE], "attachConfig")]
  /\ UNCHANGED <<config, runpc, Providers, providerCache, nextHandle, now,
                 middlewares, running, call, lastUse, builtAt, hostVars>>

\* middlewares/rewriteBody: req.body is rewritten or left alone; next()
RewriteBody(r) ==
  /\ AtStage(r, "rewriteBody")
  /\ \E m \in {req[r].model} \cup RewrittenModels :
       req' = [req EXCEPT ![r] = PassOn([@ EXCEPT !.model = m], "rewriteBody")]
  /\ UNCHANGED <<config, runpc, Providers, providerCache, nextHandle, now,
                 middlewares, running, call, lastUse, builtAt, hostVars>>

\* the rule of the category the request is classified as; NoRule for default
RuleFor(cfg, kind) ==
  CASE kind = "long" -> cfg.Router.longContext
    [] kind = "background" -> cfg.Router.background
    [] kind = "think" -> cfg.Router.think
    [] OTHER -> NoRule

\* middlewares/router: the provider and model of the request's category; a
\* request of the default category keeps its model and names no provider
Router(r) ==
  /\ AtStage(r, "router")
  /\ LET rule == RuleFor(config, req[r].kind)
     IN req' = [req EXCEPT ![r] =
                  PassOn(IF rule = NoRule THEN @
                         ELSE [@ EXCEPT !.provider = rule.provider,
                                        !.model = rule.model],
                         "router")]
  /\ UNCHANGED <<config, runpc, Providers, providerCache, nextHandle, now,
                 middlewares, running, call, lastUse, builtAt, hostVars>>

\* AssignDefault that leaves req.body.model alone
AssignDefaultProviderOnly(q, cfg) == [q EXCEPT !.provider = "default"]

\* lines 314-315: the request after the assignments of the static stage
AssignDefault(q, cfg) ==
  [q EXCEPT !.provider = "default", !.model = cfg.OPENAI_MODEL]

\* lines 313-317
StaticDefault(r) ==
  /\ AtStage(r, "staticDefault")
  /\ req' = [req EXCEPT ![r] = PassOn(AssignDefault(@, config), "staticDefault")]
  /\ UNCHANGED <<config, runpc, Providers, providerCache, nextHandle, now,
                 middlewares, running, call, lastUse, builtAt, hostVars>>

\* middlewares/formatRequest: the body is transformed and next() is called,
\* or the body cannot be translated and the request ends in an error reply
FormatRequest(r) ==
  /\ AtStage(r, "formatRequest")
  /\ \/ req' = [req EXCEPT ![r] = PassOn(@, "formatRequest")]
     \/ req' = [req EXCEPT ![r] = [@ EXCEPT !.trace = Append(@, "formatRequest"),
                                            !.pc = "done", !.resp = "error"]]
  /\ UNCHANGED <<config, runpc, Providers, providerCache, nextHandle, now,
                 middlewares, running, call, lastUse, builtAt, hostVars>>

\* req.provider || "default" (line 323)
ProviderNameOf(q) == IF q.provider # "" THEN q.provider ELSE "default"

\* HandlerCatch that runs the handler again
HandlerCatchRetrying(q) == [q EXCEPT !.pc = "handler", !.logged = @ + 1]

\* lines 326-328: the catch block logs the error and the handler returns
HandlerCatch(q) == [q EXCEPT !.pc = "done", !.logged = @ + 1]

\* a lookup that registers an unknown name as an alias of "default"
ProvidersAfterGetAliasing(reg, providerName) ==
  IF MapHas(reg, providerName) THEN reg
  ELSE MapSet(reg, providerName, MapGet(reg, "default"))

\* line 232: Providers.get(providerName) reads the Map and leaves it as it is;
\* nothing else in lines 231-246 or 321-329 touches Providers
ProvidersAfterGet(reg, providerName) == reg

\* the handle the cache holds under a key, stale or not; NoHandle for none
HeldFor(c, k) ==
  IF \E i \in 1..Len(c) : c[i].key = k
  THEN c[CHOOSE i \in 1..Len(c) : c[i].key = k].val
  ELSE NoHandle

\* the record of a getProviderInstance call and its effect on the cache
CallMade(name, g) ==
  /\ providerCache' = g.cache
  /\ nextHandle' = g.next
  /\ call' = [n |-> call.n + 1, name |-> name, threw |-> g.threw,
              openai |-> g.openai, key |-> g.key,
              constructed |-> g.next # nextHandle,
              had |-> HeldFor(providerCache, g.key),
              age |-> IF HeldFor(providerCache, g.key) = NoHandle THEN 0
                      ELSE now - builtAt[g.key]]
  /\ lastUse' = IF g.threw THEN lastUse ELSE Noted(lastUse, g.key, call.n + 1)
  /\ builtAt' = IF g.next # nextHandle THEN Noted(builtAt, g.key, now)
                ELSE builtAt

\* lines 322-324, up to the await: getProviderInstance, then either the
\* catch block or the call of provider.chat.completions.create(req.body)
Handler(r) ==
  /\ running /\ req[r].pc = "handler"
  /\ LET name == ProviderNameOf(req[r])
         g == GetProviderInstance(Providers, providerCache, nextHandle, now, name)
     IN /\ CallMade(name, g)
        /\ req' = [req EXCEPT ![r] =
                     IF g.threw THEN HandlerCatch(@)
                     ELSE [@ EXCEPT !.pc = "create", !.handle = g.openai,
                                    !.backend = name, !.calls = @ + 1,
                                    !.trace = Append(@, "create")]]
        /\ Providers' = ProvidersAfterGet(Providers, name)
  /\ UNCHANGED <<config, runpc, now, middlewares, running, hostVars>>

\* line 324 resolves; line 325 calls streamOpenAIResponse
CreateResolves(r) ==
  /\ running /\ req[r].pc = "create"
  /\ req' = [req EXCEPT ![r] = [@ EXCEPT !.pc = "stream",
                                         !.trace = Append(@, "streamOpenAIResponse")]]
  /\ UNCHANGED <<config, runpc, Providers, providerCache, nextHandle, now,
                 middlewares, running, call, lastUse, builtAt, hostVars>>

\* line 324 rejects: the catch block
CreateRejects(r) ==
  /\ running /\ req[r].pc = "create"
  /\ req' = [req EXCEPT ![r] = HandlerCatch(@)]
  /\ UNCHANGED <<config, runpc, Providers, providerCache, nextHandle, now,
                 middlewares, running, call, lastUse, builtAt, hostVars>>

\* utils/stream: the adapter begins to write the response
StreamBegins(r) ==
  /\ running /\ req[r].pc = "stream" /\ req[r].resp = "none"
  /\ req' = [req EXCEPT ![r] = [@ EXCEPT !.resp = "open"]]
  /\ UNCHANGED <<config, runpc, Providers, providerCache, nextHandle, now,
                 middlewares, running, call, lastUse, builtAt, hostVars>>

\* utils/stream: the response is written and ended
StreamEnds(r) ==
  /\ running /\ req[r].pc = "stream"
  /\ req' = [req EXCEPT ![r] = [@ EXCEPT !.pc = "done", !.resp = "ended"]]
  /\ UNCHANGED <<config, runpc, Providers, providerCache, nextHandle, now,
                 middlewares, running, call, lastUse, builtAt, hostVars>>

\* AdapterAbort that leaves a begun response as it is
AdapterAbortLeavingOpen(q) == q

\* utils/stream: the adapter fails; a response it had begun is closed with
\* what was delivered
AdapterAbort(q) == [q EXCEPT !.resp = IF @ = "open" THEN "truncated" ELSE @]

\* utils/stream throws, before or after it began to write the response: the
\* catch block
StreamThrows(r) ==
  /\ running /\ req[r].pc = "stream"
  /\ req' = [req EXCEPT ![r] = HandlerCatch(AdapterAbort(@))]
  /\ UNCHANGED <<config, runpc, Providers, providerCache, nextHandle, now,
                 middlewares, running, call, lastUse, builtAt, hostVars>>

RequestNext ==
  \E r \in Reqs :
    \/ Arrive(r)
    \/ AttachConfig(r)
    \/ RewriteBody(r)
    \/ Router(r)
    \/ StaticDefault(r)
    \/ FormatRequest(r)
    \/ Handler(r)
    \/ CreateResolves(r)
    \/ CreateRejects(r)
    \/ StreamBegins(r)
    \/ StreamEnds(r)
    \/ StreamThrows(r)

Next == RunNext \/ RequestNext

Spec == Init /\ [][Next]_vars

----------------------------------------------------------------------------
(* The cache alone: getProviderInstance calls and the clock *)

\* the provider names the calls ask for: the two first registered, the
\* tenth, the eleventh, the alias "default" and the unregistered q0
LookupNames ==
  {CacheProviderNames[1], CacheProviderNames[2], CacheProviderNames[CacheMax],
   CacheProviderNames[CacheMax + 1], "default", "q0"}

CacheRegistry ==
  RegisterDefaultProvider(RegisterAll(<<>>, CacheConfig.Providers), CacheConfig)

\* the cache, handle counter and use record after getProviderInstance was
\* called for each of the k first providers in turn, at time 0
RECURSIVE WarmUp(_)
WarmUp(k) ==
  IF k = 0 THEN [cache |-> <<>>, next |-> 1, lastUse |-> NoUse]
  ELSE LET w == WarmUp(k - 1)
           g == GetProviderInstance(CacheRegistry, w.cache, w.next, 0,
                                    CacheProviderNames[k])
       IN [cache |-> g.cache, next |-> g.next,
           lastUse |-> Noted(w.lastUse, g.key, k)]

\* the started service after k requests, k one less than the cache holds or
\* exactly what it holds
InitCache ==
  \E k \in {CacheMax - 1, CacheMax} :
    /\ config = CacheConfig
    /\ runpc = "serving"
    /\ Providers = CacheRegistry
    /\ providerCache = WarmUp(k).cache
    /\ nextHandle = WarmUp(k).next
    /\ now = 0
    /\ middlewares = MiddlewareStack(CacheConfig)
    /\ running = TRUE
    /\ req = [r \in Reqs |-> IdleReq]
    /\ call = [NoCall EXCEPT !.n = k]
    /\ lastUse = WarmUp(k).lastUse
    /\ builtAt = [n \in DOMAIN WarmUp(k).lastUse |-> 0]
    /\ HostIdle

\* a handler reaches line 323 with this provider name
Lookup(name) ==
  /\ running /\ runpc = "serving"
  /\ call.n < CacheMax + MaxCalls
  /\ CallMade(name, GetProviderInstance(Providers, providerCache, nextHandle,
                                        now, name))
  /\ Providers' = ProvidersAfterGet(Providers, name)
  /\ UNCHANGED <<config, runpc, now, middlewares, running, req, hostVars>>

\* an hour passes
Tick ==
  /\ now < MaxTime
  /\ now' = now + 1
  /\ UNCHANGED <<config, runpc, Providers, providerCache, nextHandle,
                 middlewares, running, req, call, lastUse, builtAt, hostVars>>

CacheNext ==
  \/ \E name \in LookupNames : Lookup(name)
  \/ Tick

SpecCache == InitCache /\ [][CacheNext]_vars

----------------------------------------------------------------------------
(* The service processes: run() from its first line to server.start, the
   PID file, and the termination signals *)

Signals == {"SIGINT", "SIGTERM"}

\* the process has called run() and has neither returned at line 215 nor exited
Alive(q) == q.pc \notin {"idle", "returned", "exited"}

\* utils/processCheck isServiceRunning: the PID file names a live process
IsServiceRunning == pidFile # 0 /\ Alive(proc[pidFile])

\* lines 213-216 that go on whatever isServiceRunning() answered
AfterCheckProceeding(q, isRunning) ==
  [q EXCEPT !.pc = "init", !.sawRunning = isRunning]

\* lines 213-216: return when the service is running, go on otherwise
AfterCheck(q, isRunning) ==
  IF isRunning THEN [q EXCEPT !.pc = "returned", !.sawRunning = TRUE]
               ELSE [q EXCEPT !.pc = "init"]

\* the process has a listener for the signal (lines 277, 284)
Handles(q, sig) == IF sig = "SIGINT" THEN q.sigint ELSE q.sigterm

\* the process starts and calls run() (cli.ts: case "start")
RunEnter(p) ==
  /\ proc[p].pc = "idle"
  /\ proc' = [proc EXCEPT ![p].pc = "check"]
  /\ UNCHANGED <<gatewayVars, pidFile, cli, cfgio>>

\* lines 213-216
RunCheck(p) ==
  /\ proc[p].pc = "check"
  /\ proc' = [proc EXCEPT ![p] = AfterCheck(@, IsServiceRunning)]
  /\ UNCHANGED <<gatewayVars, pidFile, cli, cfgio>>

\* lines 218-271: the awaited initialisation, then the registry
RunInitialize(p) ==
  /\ proc[p].pc = "init"
  /\ proc' = [proc EXCEPT ![p].pc = "savePid"]
  /\ UNCHANGED <<gatewayVars, pidFile, cli, cfgio>>

\* line 274: savePid(process.pid) writes the PID file
RunSavePid(p) ==
  /\ proc[p].pc = "savePid"
  /\ pidFile' = p
  /\ proc' = [proc EXCEPT ![p].pc = "onSigint", ![p].savedPid = TRUE]
  /\ UNCHANGED <<gatewayVars, cli, cfgio>>

\* lines 277-281: process.on("SIGINT", ...)
RunOnSigint(p) ==
  /\ proc[p].pc = "onSigint"
  /\ proc' = [proc EXCEPT ![p].pc = "onSigterm", ![p].sigint = TRUE]
  /\ UNCHANGED <<gatewayVars, pidFile, cli, cfgio>>

\* lines 284-287: process.on("SIGTERM", ...)
RunOnSigterm(p) ==
  /\ proc[p].pc = "onSigterm"
  /\ proc' = [proc EXCEPT ![p].pc = "createServer", ![p].sigterm = TRUE]
  /\ UNCHANGED <<gatewayVars, pidFile, cli, cfgio>>

\* lines 290-294: await createServer(servicePort)
RunCreateServer(p) ==
  /\ proc[p].pc = "createServer"
  /\ proc' = [proc EXCEPT ![p].pc = "register", ![p].server = TRUE]
  /\ UNCHANGED <<gatewayVars, pidFile, cli, cfgio>>

\* lines 297-330: the stages and the handler are registered, the server starts
RunRegister(p) ==
  /\ proc[p].pc = "register"
  /\ proc' = [proc EXCEPT ![p].pc = "serving", ![p].stages = TRUE]
  /\ UNCHANGED <<gatewayVars, pidFile, cli, cfgio>>

\* a termination signal for which the process has no listener: the default
\* action ends the process at once, whatever it was doing
SignalDefault(p, sig) ==
  /\ Alive(proc[p]) /\ ~Handles(proc[p], sig)
  /\ proc' = [proc EXCEPT ![p].pc = "exited", ![p].exit = "killed"]
  /\ UNCHANGED <<gatewayVars, pidFile, cli, cfgio>>

\* lines 278-280, 285-286: the listener runs once the process is back in its
\* event loop (from the await of line 294 on): cleanupPidFile() removes the
\* PID file, then process.exit(0)
SignalHandled(p, sig) ==
  /\ proc[p].pc \in {"createServer", "register", "serving"}
  /\ Handles(proc[p], sig)
  /\ pidFile' = 0
  /\ proc' = [proc EXCEPT ![p].pc = "exited", ![p].exit = "cleanup"]
  /\ UNCHANGED <<gatewayVars, cli, cfgio>>

ProcNext(p) ==
  \/ RunEnter(p)
  \/ RunCheck(p)
  \/ RunInitialize(p)
  \/ RunSavePid(p)
  \/ RunOnSigint(p)
  \/ RunOnSigterm(p)
  \/ RunCreateServer(p)
  \/ RunRegister(p)
  \/ \E sig \in Signals : SignalDefault(p, sig)
  \/ \E sig \in Signals : SignalHandled(p, sig)

LifecycleNext == \E p \in Procs : ProcNext(p)

\* no process has started; the gateway state is left as loaded
InitLifecycle == InitWith({CacheConfig})

SpecLifecycle == InitLifecycle /\ [][LifecycleNext]_vars

----------------------------------------------------------------------------
(* The CLI command "code" (main, lines 439-457) and waitForService *)

\* lines 446-453 that call executeCodeCommand whatever waitForService returned
AfterWaitExecuting(c, ok) == [c EXCEPT !.pc = "exec"]

\* lines 446-453: executeCodeCommand when waitForService returned true,
\* process.exit(1) when it returned false
AfterWait(c, ok) ==
  IF ok THEN [c EXCEPT !.pc = "exec"]
        ELSE [c EXCEPT !.pc = "exited", !.exitCode = 1]

\* line 440: the command starts and asks isServiceRunning()
CliStart ==
  /\ cli.pc = "idle"
  /\ cli' = IF IsServiceRunning
              THEN [cli EXCEPT !.pc = "exec", !.observed = TRUE]
              ELSE [cli EXCEPT !.pc = "spawn"]
  /\ UNCHANGED <<gatewayVars, pidFile, proc, cfgio>>

\* lines 441-445: spawn("ccr", ["start"]): a new process calls run(); with no
\* process left in the model the child is one that never comes up
CliSpawn ==
  /\ cli.pc = "spawn"
  /\ cli' = [cli EXCEPT !.pc = "delay", !.spawned = TRUE]
  /\ LET idle == {p \in Procs : proc[p].pc = "idle"}
     IN IF idle = {} THEN proc' = proc
        ELSE \E p \in idle : proc' = [proc EXCEPT ![p].pc = "check"]
  /\ UNCHANGED <<gatewayVars, pidFile, cfgio>>

\* lines 388-392: the initial delay, then startTime = Date.now()
CliDelay ==
  /\ cli.pc = "delay"
  /\ cli' = [cli EXCEPT !.pc = "poll", !.elapsed = 0]
  /\ UNCHANGED <<gatewayVars, pidFile, proc, cfgio>>

\* lines 393-402: one turn of the loop.  Within the timeout the service is
\* either observed or the loop sleeps 100 ms, which moves the clock of whole
\* seconds on by 0 or 1; past the timeout the function returns false
CliPoll ==
  /\ cli.pc = "poll"
  /\ IF cli.elapsed < WaitTimeout
       THEN IF IsServiceRunning
              THEN cli' = [cli EXCEPT !.pc = "ready", !.observed = TRUE]
              ELSE \E d \in {0, 1} : cli' = [cli EXCEPT !.elapsed = @ + d]
       ELSE cli' = [cli EXCEPT !.pc = "timeout"]
  /\ UNCHANGED <<gatewayVars, pidFile, proc, cfgio>>

\* lines 395-397, 446: the extra 500 ms, return true
CliReady ==
  /\ cli.pc = "ready"
  /\ cli' = AfterWait(cli, TRUE)
  /\ UNCHANGED <<gatewayVars, pidFile, proc, cfgio>>

\* lines 402, 446-453: return false
CliTimeout ==
  /\ cli.pc = "timeout"
  /\ cli' = AfterWait(cli, FALSE)
  /\ UNCHANGED <<gatewayVars, pidFile, proc, cfgio>>

\* lines 447, 455: executeCodeCommand(process.argv.slice(3))
CliExec ==
  /\ cli.pc = "exec"
  /\ cli' = [cli EXCEPT !.pc = "done", !.executed = TRUE]
  /\ UNCHANGED <<gatewayVars, pidFile, proc, cfgio>>

CliNext ==
  \/ CliStart
  \/ CliSpawn
  \/ CliDelay
  \/ CliPoll
  \/ CliReady
  \/ CliTimeout
  \/ CliExec

SpecCli == InitLifecycle /\ [][CliNext \/ LifecycleNext]_vars

----------------------------------------------------------------------------
(* readConfigFile (lines 57-94) and writeConfigFile (lines 96-102) *)

\* const requiredFields (line 73), in the order of the loop
requiredFields == <<"OPENAI_API_KEY", "OPENAI_BASE_URL", "OPENAI_MODEL">>

Required == {requiredFields[i] : i \in DOMAIN requiredFields}

\* an object is a function from its own keys to their values
EmptyObject == [k \in {} |-> ""]

\* the objects with keys among keys and values among vals
Objects(keys, vals) == UNION {[d -> vals] : d \in SUBSET keys}

\* !!o[k]: the key is there and its value is not the empty string
Truthy(o, k) == k \in DOMAIN o /\ o[k] # ""

\* Object.assign({}, a, b)
ObjectAssign(a, b) ==
  [k \in DOMAIN a \cup DOMAIN b |-> IF k \in DOMAIN b THEN b[k] ELSE a[k]]

\* o[k] = v
Put(o, k, v) == [x \in DOMAIN o \cup {k} |-> IF x = k THEN v ELSE o[x]]

\* process.env: each required variable unset, empty or "e"
Environments == Objects(Required, {"", "e"})

\* the file: absent, or a JSON object whose required fields are absent,
\* empty or "f", with or without a Providers section
ConfigFiles ==
  {[exists |-> FALSE, content |-> EmptyObject]} \cup
  {[exists |-> TRUE, content |-> ObjectAssign(o, x)] :
     o \in Objects(Required, {"", "f"}),
     x \in Objects({"Providers"}, {"x"})}

\* DEFAULT_CONFIG: any of the required fields with the value "d"
DefaultConfigs == Objects(Required, {"d"})

\* what the user types at a prompt
Answers == {"", "a"}

\* one turn of the loop that looks at the configuration before the environment
FieldStepFileFirst(c, field, answer) ==
  IF Truthy(c.config, field) THEN c
  ELSE IF Truthy(c.env, field)
    THEN [c EXCEPT !.config = Put(@, field, c.env[field])]
    ELSE [c EXCEPT !.config = Put(@, field, answer), !.needsUpdate = TRUE,
                   !.prompted = @ \cup {field},
                   !.answers = Put(@, field, answer)]

\* lines 77-86: one turn of the loop
FieldStep(c, field, answer) ==
  IF Truthy(c.env, field)
    THEN [c EXCEPT !.config = Put(@, field, c.env[field])]
  ELSE IF ~Truthy(c.config, field)
    THEN [c EXCEPT !.config = Put(@, field, answer), !.needsUpdate = TRUE,
                   !.prompted = @ \cup {field},
                   !.answers = Put(@, field, answer)]
    ELSE c

\* readConfigFile is called: environment, file and defaults are as found
InitCfgio ==
  \E e \in Environments, f \in ConfigFiles, d \in DefaultConfigs :
    cfgio = [pc |-> "read", env |-> e, file |-> f, defaults |-> d,
             existingConfig |-> EmptyObject, config |-> EmptyObject, i |-> 1,
             needsUpdate |-> FALSE, prompted |-> {}, answers |-> EmptyObject,
             disk |-> f, written |-> FALSE]

\* lines 58-67: the file is read and parsed; without a file the object is {}
CfgRead ==
  /\ cfgio.pc = "read"
  /\ cfgio' = [cfgio EXCEPT !.pc = "merge",
                 !.existingConfig = IF cfgio.file.exists
                                      THEN cfgio.file.content ELSE EmptyObject]
  /\ UNCHANGED <<gatewayVars, pidFile, proc, cli>>

\* lines 70-74: Object.assign({}, DEFAULT_CONFIG, existingConfig)
CfgMerge ==
  /\ cfgio.pc = "merge"
  /\ cfgio' = [cfgio EXCEPT !.pc = "fields",
                 !.config = ObjectAssign(cfgio.defaults, cfgio.existingConfig)]
  /\ UNCHANGED <<gatewayVars, pidFile, proc, cli>>

\* lines 76-86: the loop turn for requiredFields[i]; the answer is used only
\* when the field is prompted
CfgField ==
  /\ cfgio.pc = "fields" /\ cfgio.i <= Len(requiredFields)
  /\ \E answer \in Answers :
       cfgio' = [FieldStep(cfgio, requiredFields[cfgio.i], answer)
                   EXCEPT !.i = @ + 1]
  /\ UNCHANGED <<gatewayVars, pidFile, proc, cli>>

\* lines 88-93 and 96-102: after the loop the whole config object is written
\* when needsUpdate, and config is returned
CfgWrite ==
  /\ cfgio.pc = "fields" /\ cfgio.i > Len(requiredFields)
  /\ cfgio' = IF cfgio.needsUpdate
                THEN [cfgio EXCEPT !.pc = "returned", !.written = TRUE,
                        !.disk = [exists |-> TRUE, content |-> cfgio.config]]
                ELSE [cfgio EXCEPT !.pc = "returned"]
  /\ UNCHANGED <<gatewayVars, pidFile, proc, cli>>

ConfigNext ==
  \/ CfgRead
  \/ CfgMerge
  \/ CfgField
  \/ CfgWrite

InitConfig ==
  /\ GatewayLoaded({CacheConfig})
  /\ pidFile = 0
  /\ proc = [p \in Procs |-> IdleProc]
  /\ cli = IdleCli
  /\ InitCfgio

SpecConfig == InitConfig /\ [][ConfigNext]_vars

----------------------------------------------------------------------------
(* Properties *)

\* the stages are registered
Installed == runpc \in {"start", "serving"}

\* the registry is complete
Registered == runpc \notin {"providers", "default"}

Last(t) == t[Len(t)]

\* the routing stage of the request has just passed control on
JustRouted(q) ==
  /\ q.pc = "pipeline"
  /\ q.trace # <<>>
  /\ Last(q.trace) \in {"router", "staticDefault"}

\* C1: every request that has ended was answered exactly once, by the
\* complete response or by an error reply; after a logged error the reply is
\* the error reply.
C1_EveryRequestAnswered ==
  \A r \in Reqs :
    req[r].pc = "done" =>
      /\ req[r].resp \in {"ended", "error"}
      /\ req[r].logged > 0 => req[r].resp = "error"

\* C2: when the Router rules are not all three present, the router stage is
\* not among the registered stages, and every request that has just left the
\* routing stage has req.provider = "default" and req.body.model =
\* config.OPENAI_MODEL, whatever it was flagged as and whatever model it
\* carried.
C2_DegradedRoutesToDefault ==
  (Installed /\ ~RouterComplete(config)) =>
    /\ \A i \in 1..Len(middlewares) : middlewares[i] # "router"
    /\ \A r \in Reqs :
         JustRouted(req[r]) =>
           /\ req[r].provider = "default"
           /\ req[r].model = config.OPENAI_MODEL

\* a background request whose model rewriteBody replaced has left the static
\* stage of a degraded configuration
C2_Witness ==
  \E r \in Reqs :
    /\ ~RouterComplete(config)
    /\ JustRouted(req[r])
    /\ req[r].kind = "background"
    /\ req[r].trace = <<"attachConfig", "rewriteBody", "staticDefault">>
    /\ req[r].provider = "default"
    /\ req[r].model = "m0"

TripleSet(cfg) ==
  cfg.OPENAI_API_KEY # "" /\ cfg.OPENAI_BASE_URL # "" /\ cfg.OPENAI_MODEL # ""

\* the entry of config.Providers that the registry holds under name n: the
\* last one of that name
LastNamed(ps, n) ==
  ps[CHOOSE i \in 1..Len(ps) :
       /\ ps[i].name = n
       /\ \A j \in (i + 1)..Len(ps) : ps[j].name # n]

\* C3: once run() has resolved the default provider, "default" is the
\* provider built from the OPENAI_* triple when all three are set (whatever
\* config.Providers holds); otherwise, with at least one configured provider,
\* it is the provider registered first (under the name of the first entry of
\* config.Providers); otherwise "default" is not registered.  The registry
\* entry is given by the configuration alone.
C3_DefaultResolution ==
  Registered =>
    IF TripleSet(config)
    THEN MapGet(Providers, "default") =
           ModelProvider("default", config.OPENAI_BASE_URL,
                         config.OPENAI_API_KEY, <<config.OPENAI_MODEL>>)
    ELSE IF Len(config.Providers) > 0
    THEN /\ MapHas(Providers, "default")
         /\ MapGet(Providers, "default") =
              LastNamed(config.Providers, config.Providers[1].name)
         /\ MapGet(Providers, "default") =
              MapGet(Providers, config.Providers[1].name)
    ELSE ~MapHas(Providers, "default")

\* without the full triple, "default" is the first of two configured
\* providers, registered under its own name too
C3_Witness ==
  /\ Registered
  /\ ~TripleSet(config)
  /\ config.OPENAI_MODEL # ""
  /\ config.Providers = <<P1, P2>>
  /\ MapGet(Providers, "default") = P1
  /\ MapGet(Providers, "p1") = P1

InSeq(x, t) == \E i \in 1..Len(t) : t[i] = x

\* C4: in degraded mode, the model of a request handed to the backend is one
\* of the models of the provider registered as "default".
C4_DegradedModelIsDefaultProviders ==
  (Installed /\ ~RouterComplete(config)) =>
    \A r \in Reqs :
      req[r].pc = "create" =>
        InSeq(req[r].model, MapGet(Providers, "default").models)

\* C5: a call that finds a handle in the cache under the provider's key
\* returns that very handle, constructing none, when the handle was
\* constructed at most CacheTTL ago; when it was constructed longer ago, the
\* call constructs and returns a new handle, however often the old one was
\* returned in between.
C5_HitWithinTtlRebuildAfter ==
  (call.n > 0 /\ ~call.threw /\ call.had # NoHandle) =>
    IF call.age <= CacheTTL
    THEN call.openai = call.had /\ ~call.constructed
    ELSE /\ call.constructed
         /\ call.openai # call.had
         /\ call.openai.id > call.had.id

\* a call found a handle older than the TTL and constructed a new one
C5_Witness ==
  /\ call.n > 0 /\ ~call.threw
  /\ call.had # NoHandle
  /\ call.age > CacheTTL
  /\ call.constructed
  /\ HeldFor(providerCache, call.key) = call.openai

\* the cache key of the provider registered under a name
KeyOf(name) == MapGet(Providers, name).name

InFlight(q) == q.pc \in {"create", "stream"}

\* C6: the cache holds at most one entry per key; every handle constructed is
\* in the cache, and every handle a request was given is the one the cache
\* holds under the key of its provider, so requests for one provider, however
\* interleaved, share one handle.
C6_OneHandlePerProvider ==
  /\ \A i, j \in 1..Len(providerCache) :
       providerCache[i].key = providerCache[j].key => i = j
  /\ Len(providerCache) = nextHandle - 1
  /\ \A r \in Reqs :
       req[r].handle # NoHandle =>
         HeldFor(providerCache, KeyOf(req[r].backend)) = req[r].handle

\* two requests for one provider are awaiting the backend with the one
\* handle constructed
C6_Witness ==
  \E r1, r2 \in Reqs :
    /\ r1 # r2
    /\ InFlight(req[r1]) /\ InFlight(req[r2])
    /\ req[r1].handle = req[r2].handle
    /\ req[r1].handle # NoHandle
    /\ nextHandle = 2

CacheKeysOf(c) == {c[i].key : i \in 1..Len(c)}

\* the key in the cache whose last use (hit or insert) is the oldest
LruKey(c) ==
  CHOOSE k \in CacheKeysOf(c) : \A k2 \in CacheKeysOf(c) : lastUse[k] <= lastUse[k2]

\* a call that constructs a handle for a key not in the full cache
C7_Step ==
  (/\ call'.n = call.n + 1
   /\ call'.constructed
   /\ Len(providerCache) = CacheMax
   /\ HeldFor(providerCache, call'.key) = NoHandle) =>
    /\ Len(providerCache') = CacheMax
    /\ CacheKeysOf(providerCache') =
         (CacheKeysOf(providerCache) \ {LruKey(providerCache)}) \cup {call'.key}
    /\ \A k \in CacheKeysOf(providerCache) \ {LruKey(providerCache)} :
         HeldFor(providerCache', k) = HeldFor(providerCache, k)

\* C7: the cache never holds more than CacheMax handles, and a call that
\* inserts a handle while CacheMax other entries are present removes the entry
\* whose last hit or insert is the oldest, and leaves every other entry.
C7_CapacityAndLru ==
  /\ [](Len(providerCache) <= CacheMax)
  /\ [][C7_Step]_vars

\* the eleventh provider was inserted into the full cache after a hit on the
\* first: the second provider went, the first stayed
C7_Witness ==
  /\ call.constructed
  /\ call.name = CacheProviderNames[CacheMax + 1]
  /\ Len(providerCache) = CacheMax
  /\ lastUse[CacheProviderNames[1]] > CacheMax
  /\ HeldFor(providerCache, CacheProviderNames[1]).id = 1
  /\ HeldFor(providerCache, CacheProviderNames[2]) = NoHandle

\* the order the claim fixes
StageOrder(cfg) ==
  <<"attachConfig", "rewriteBody",
    IF RouterComplete(cfg) THEN "router" ELSE "staticDefault",
    "formatRequest", "create", "streamOpenAIResponse">>

IsPrefix(t, u) == Len(t) <= Len(u) /\ \A i \in 1..Len(t) : t[i] = u[i]

\* C8: four stages are registered, exactly one of them a routing stage, and
\* what has run for a request is an initial part of: attach configuration,
\* rewriteBody, the routing stage, formatRequest, the provider call,
\* streamOpenAIResponse.  A request the format stage answered itself never
\* reached the backend.
C8_FixedStageOrder ==
  Installed =>
    /\ Len(middlewares) = 4
    /\ Cardinality({i \in 1..Len(middlewares) :
                      middlewares[i] \in {"router", "staticDefault"}}) = 1
    /\ \A r \in Reqs :
         /\ IsPrefix(req[r].trace, StageOrder(config))
         /\ req[r].calls > 0 => Len(req[r].trace) >= 5
         /\ req[r].resp = "error" => req[r].calls = 0

\* a request of a degraded configuration went through all six stages
C8_Witness ==
  \E r \in Reqs :
    /\ ~RouterComplete(config)
    /\ req[r].pc = "done"
    /\ req[r].resp = "ended"
    /\ req[r].trace = StageOrder(config)

\* C9: chat.completions.create is called at most once per request, on the
\* handle of the provider registered under req.provider ("default" when
\* unset), also after that call or the response adaptation failed.
C9_SingleAttempt ==
  \A r \in Reqs :
    /\ req[r].calls <= 1
    /\ req[r].calls = 1 =>
         /\ req[r].backend = ProviderNameOf(req[r])
         /\ req[r].handle.baseURL = MapGet(Providers, req[r].backend).api_base_url
         /\ req[r].handle.apiKey = MapGet(Providers, req[r].backend).api_key

\* a request ended in the catch block after its one backend call
C9_Witness ==
  \E r \in Reqs :
    /\ req[r].pc = "done"
    /\ req[r].logged = 1
    /\ req[r].calls = 1

\* the handler of request r runs for a provider name the registry lacks
C10_Step ==
  \A r \in Reqs :
    (/\ req[r].pc = "handler"
     /\ req'[r] # req[r]
     /\ ~MapHas(Providers, ProviderNameOf(req[r]))) =>
      /\ call'.threw
      /\ providerCache' = providerCache
      /\ nextHandle' = nextHandle
      /\ Providers' = Providers
      /\ running'
      /\ req'[r].pc = "done"
      /\ req'[r].calls = 0
      /\ req'[r].handle = NoHandle
      /\ \A r2 \in Reqs \ {r} : req'[r2] = req[r2]

\* C10: a handler run for an unregistered provider name ends that request
\* with no handle constructed and no backend call, leaves registry, cache
\* and the other requests as they were, and the process stays up; a call for
\* a registered name never throws, whatever failed before.
C10_UnknownProviderFailsOneRequest ==
  /\ [](running)
  /\ []((call.n > 0 /\ MapHas(Providers, call.name)) =>
          (~call.threw /\ call.openai # NoHandle))
  /\ [][C10_Step]_vars

\* a request for the unregistered p3 failed, and a request handled after it
\* was served by a registered provider
C10_Witness ==
  \E r1, r2 \in Reqs :
    /\ req[r1].pc = "done" /\ req[r1].provider = "p3"
    /\ req[r1].calls = 0 /\ req[r1].logged = 1
    /\ req[r2].pc = "done" /\ req[r2].resp = "ended"
    /\ call.n = 2 /\ call.name = ProviderNameOf(req[r2])
    /\ running

C12_SignalCleansPidFile ==
  \A p \in Procs :
    /\ (proc[p].savedPid /\ proc[p].pc = "exited") =>
         (proc[p].exit = "cleanup" /\ pidFile # p)
    /\ proc[p].server => (proc[p].sigint /\ proc[p].sigterm)

\* C16: a run() that found the service running has returned and has saved no
\* PID, registered no signal listener, created no server and installed no
\* stage; a run() returns this early only when it found the service running
C16_AlreadyRunningReturns ==
  \A p \in Procs :
    /\ proc[p].sawRunning =>
         /\ proc[p].pc = "returned"
         /\ ~proc[p].savedPid /\ ~proc[p].sigint /\ ~proc[p].sigterm
         /\ ~proc[p].server /\ ~proc[p].stages
    /\ proc[p].pc = "returned" => proc[p].sawRunning

\* a second run() has returned at line 215 while the first instance serves
\* and the PID file still names it
C16_Witness ==
  \E p, q \in Procs :
    /\ proc[p].pc = "returned" /\ proc[p].sawRunning
    /\ proc[q].pc = "serving" /\ pidFile = q

\* C17: of two live processes that called run(), at most one has passed
\* savePid; so no process writes the PID file while another that wrote it lives
C17_SingleInstance ==
  \A p, q \in Procs :
    (p # q /\ Alive(proc[p]) /\ Alive(proc[q])) =>
      ~(proc[p].savedPid /\ proc[q].savedPid)

\* C19: executeCodeCommand is called, or about to be called, only after the
\* command observed the service running; a wait that ended without observing
\* it ran the whole timeout and ends the command with exit code 1 and no
\* executeCodeCommand; the command ends in no other way
C19_CodeOnlyAfterObserved ==
  /\ (cli.executed \/ cli.pc = "exec") => cli.observed
  /\ cli.pc = "done" => cli.executed
  /\ cli.pc = "timeout" =>
       (~cli.observed /\ ~cli.executed /\ cli.elapsed >= WaitTimeout)
  /\ cli.pc = "exited" =>
       /\ cli.exitCode = 1 /\ cli.spawned
       /\ ~cli.observed /\ ~cli.executed /\ cli.elapsed >= WaitTimeout
  /\ cli.exitCode = 1 => cli.pc = "exited"

\* the command spawned the service, saw it come up and ran executeCodeCommand
C19_Witness == cli.executed /\ cli.spawned /\ cli.observed

\* the file's object merged over the defaults, as the call found them
FoundConfig ==
  ObjectAssign(cfgio.defaults,
               IF cfgio.file.exists THEN cfgio.file.content ELSE EmptyObject)

\* C13: when readConfigFile returns, each required field has the value of
\* its environment variable if that is set (non-empty), else the value of the
\* file or the defaults if there is one, else the answer given at the prompt;
\* the fields prompted are those with neither; and the file was written
\* exactly when some field was prompted
C13_ConfigPrecedence ==
  cfgio.pc = "returned" =>
    /\ \A f \in Required :
         /\ f \in DOMAIN cfgio.config
         /\ cfgio.config[f] =
              IF Truthy(cfgio.env, f) THEN cfgio.env[f]
              ELSE IF Truthy(FoundConfig, f) THEN FoundConfig[f]
              ELSE cfgio.answers[f]
         /\ f \in cfgio.prompted <=>
              (~Truthy(cfgio.env, f) /\ ~Truthy(FoundConfig, f))
    /\ cfgio.written <=> cfgio.prompted # {}
    /\ ~cfgio.written => cfgio.disk = cfgio.file

\* a call has returned with one field from the environment although the file
\* had it too, one from the file and one from the prompt
C13_Witness ==
  /\ cfgio.pc = "returned"
  /\ \E f, g, h \in Required :
       /\ Truthy(cfgio.env, f) /\ Truthy(cfgio.file.content, f)
       /\ cfgio.config[f] = "e"
       /\ ~Truthy(cfgio.env, g) /\ cfgio.config[g] = "f"
       /\ h \in cfgio.prompted /\ cfgio.config[h] = "a"

\* C14: whenever readConfigFile has written the file, every key the file had
\* is still there, every key it had with a value keeps that value, and any
\* other value in the file is that of a required field that had a value
\* neither in the environment nor in the file
C14_FileNeverOverridden ==
  cfgio.written =>
    /\ \A k \in DOMAIN cfgio.file.content : k \in DOMAIN cfgio.disk.content
    /\ \A k \in DOMAIN cfgio.disk.content :
         IF Truthy(cfgio.file.content, k)
           THEN cfgio.disk.content[k] = cfgio.file.content[k]
           ELSE k \in Required /\ ~Truthy(cfgio.env, k)

\* the registry that lines 249-270 build from the configuration
BuiltRegistry ==
  RegisterDefaultProvider(RegisterAll(<<>>, config.Providers), config)

\* C15: once startup has built the registry, it is what the configuration
\* gave and no step changes it: every name resolves to the same attributes
\* for every request, however many were handled before
C15_RegistryReadOnly ==
  /\ [](Registered => Providers = BuiltRegistry)
  /\ [][Registered => Providers' = Providers]_vars

\* two requests have resolved the same registered name and got the same handle
C15_Witness ==
  /\ Registered /\ Len(Providers) > 0
  /\ \E r, s \in Reqs :
       /\ r # s
       /\ req[r].backend # "" /\ req[r].backend = req[s].backend
       /\ req[r].handle = req[s].handle

\* "default" is registered as another name of a provider (lines 268-269)
DefaultIsAlias ==
  MapHas(Providers, "default") /\ MapGet(Providers, "default").name # "default"

\* the handle was constructed from the address and key of the provider
BuiltFrom(openai, provider) ==
  /\ openai.baseURL = provider.api_base_url
  /\ openai.apiKey = provider.api_key

\* C18: the handle a call returns, and every handle in the cache, was
\* constructed from the address and key of the provider the registry resolves
\* the name or cache key to; the cache key of a call is that provider's own
\* name, so when "default" is an alias no entry is keyed "default" and a call
\* for "default" returns the very handle held under the provider's own name
C18_CacheCoherence ==
  /\ (call.name # "" /\ ~call.threw) =>
       /\ BuiltFrom(call.openai, MapGet(Providers, call.name))
       /\ call.key = MapGet(Providers, call.name).name
       /\ HeldFor(providerCache, call.key) = call.openai
  /\ \A i \in 1..Len(providerCache) :
       /\ MapHas(Providers, providerCache[i].key)
       /\ BuiltFrom(providerCache[i].val,
                    MapGet(Providers, providerCache[i].key))
       /\ DefaultIsAlias => providerCache[i].key # "default"

\* "default" is an alias, and a call for "default" was answered from the
\* entry made under the provider's own name, without constructing a handle
C18_Witness ==
  /\ DefaultIsAlias
  /\ call.name = "default" /\ ~call.threw /\ ~call.constructed
  /\ call.key = MapFirstValue(Providers).name
  /\ call.openai = call.had
  /\ BuiltFrom(call.openai, MapFirstValue(Providers))

====
